---------------------------- MODULE Spec2Model ----------------------------
(***************************************************************************)
(* Cable Length Calculation: the routing graph that script.py builds and   *)
(* exports as topologic.JSON, and the shortest-path run of calc_shortest.py *)
(* over that document.                                                      *)
(*                                                                          *)
(* Numbers.  Coordinates are integers on a grid of ticks, ten ticks to the  *)
(* foot.  Computed lengths (math.sqrt results) are fixed-point numbers in   *)
(* units of 1/Scale tick, so the rounding of a length is a hundred times    *)
(* finer than the smallest tolerance, as it is for floats.  The tolerances  *)
(* of the source are placed on the tick grid in the order the source has    *)
(* them: MATCH_TOL = isclose t < RETRY_TOL < MERGE_TOL < BRIDGING_MAX_DIST. *)
(***************************************************************************)
EXTENDS Integers, Sequences, FiniteSets, TLC

\* ------------------------------------------------------------------ bounds
MaxSegs == 3          \* infrastructure segments in one run
MaxDevs == 2          \* electrical devices in one run

\* --------------------------------------------------------------- constants
MERGE_TOL         == 3      \* script.py: vertex merge tolerance (ticks)
ISCLOSE_T         == 1      \* script.py: isclose default t (ticks)
MATCH_TOL         == 1      \* calc_shortest.py (ticks)
RETRY_TOL         == 2      \* calc_shortest.py: second try of the index lookup
BRIDGING_MAX_DIST == 50     \* calc_shortest.py: 5.0 ft
Scale             == 10 * 10   \* fixed-point units per tick for lengths
None              == 0 - 1     \* Python None for an index or a length

\* ------------------------------------------------------------ input pools
A  == <<0, 0, 0>>
B  == <<100, 0, 0>>
C  == <<100, 100, 0>>
D  == <<0, 100, 0>>
A2 == <<0, 2, 0>>       \* nearer than MERGE_TOL to A
A3 == <<0, 3, 0>>       \* exactly MERGE_TOL from A, nearer than that to A2

\* The infrastructure segments a run draws from, in extraction order: three
\* sides of a 10 ft square, its diagonal, a reversed near-copy of the first
\* side, a side that starts a merge tolerance off a corner, a segment of no
\* length, and a stub shorter than the merge tolerance.
SegPool == << <<A, B>>, <<B, C>>, <<C, D>>, <<A, C>>,
              <<B, A2>>, <<A3, D>>, <<D, D>>, <<A, A2>> >>

\* Device locations: on a side at 5.0 ft from both its ends, on the diagonal
\* farther than that from its ends, at a corner, and 2 ft above a side.
DevPool == { <<50, 0, 0>>, <<50, 50, 0>>, D, <<50, 0, 20>> }

\* Picked end points: two corners and a point 3 ft off a corner.
EndPool == { D, C, <<0, 130, 0>> }

\* --------------------------------------------------------------- helpers
Abs(x) == IF x < 0 THEN 0 - x ELSE x
Min(x, y) == IF x < y THEN x ELSE y
Max(x, y) == IF x > y THEN x ELSE y

\* The element of a set of one element: Once({ F(x) : x \in {e} }) is F(e),
\* with e worked out a single time.
Once(S) == CHOOSE r \in S : TRUE

RECURSIVE SqrtSearch(_, _, _)
SqrtSearch(n, lo, hi) ==
    IF lo >= hi THEN lo
    ELSE LET mid == (lo + hi + 1) \div 2
         IN  IF mid * mid <= n THEN SqrtSearch(n, mid, hi)
                               ELSE SqrtSearch(n, lo, mid - 1)

\* The square roots of the squared distances up to 200 ticks squared, taken
\* once.
SqrtTable == [n \in 0 .. 200 * 200 |-> SqrtSearch(n * Scale * Scale, 0, 46340)]

\* math.sqrt on the fixed-point grid: the square root of n square ticks,
\* in units of 1/Scale tick.
FixSqrt(n) == IF n \in DOMAIN SqrtTable THEN SqrtTable[n]
              ELSE SqrtSearch(n * Scale * Scale, 0, 46340)

SqDist(a, b) ==
    Once({ (p[1] - q[1]) * (p[1] - q[1]) + (p[2] - q[2]) * (p[2] - q[2])
             + (p[3] - q[3]) * (p[3] - q[3]) : p \in {a}, q \in {b} })

\* script.py distance3d
distance3d(a, b) == FixSqrt(SqDist(a, b))

\* calc_shortest.py dist3
dist3(a, b) == FixSqrt(SqDist(a, b))

\* script.py isclose(a, b, t=1e-9)
isclose(a, b) == Abs(a - b) <= ISCLOSE_T

\* Division rounded to the nearest tick (q > 0).
RoundDiv(p, q) == (2 * p + q) \div (2 * q)

\* script.py closest_point_on_line: the clamped projection of pt on seg and
\* its distance from pt (the parameter t is returned too, and never read).
closest_point_on_line(pt, seg) ==
    Once({
      LET ab  == <<b[1] - a[1], b[2] - a[2], b[3] - a[3]>>
          ap  == <<pt[1] - a[1], pt[2] - a[2], pt[3] - a[3]>>
          ab2 == ab[1] * ab[1] + ab[2] * ab[2] + ab[3] * ab[3]
          num == ap[1] * ab[1] + ap[2] * ab[2] + ap[3] * ab[3]
      IN  IF ab2 = 0 THEN [cpt |-> a, d |-> distance3d(pt, a)]
          ELSE Once({
                 LET cpt == <<a[1] + RoundDiv(ab[1] * tn, ab2),
                              a[2] + RoundDiv(ab[2] * tn, ab2),
                              a[3] + RoundDiv(ab[3] * tn, ab2)>>
                 IN  [cpt |-> cpt, d |-> distance3d(pt, cpt)] :
                 tn \in { Max(0, Min(ab2, num)) } }) :
      a \in { seg[1] }, b \in { seg[2] } })


\* ----------------------------------------------------------------- state
VARIABLES
    pc,                   \* where the run stands
    fittings,             \* script.py: connector points of the residual fittings
    fi,                   \* script.py: residual fittings already extracted
    infrastructure_edges, \* script.py: run_edges + residual_edges, pairs of points
    electrical,           \* script.py: the devices, [id, point]
    end_xyz,              \* script.py: the picked end point
    start_points,         \* script.py: exported [element_id, point] list
    connection_edges,     \* script.py: jumper / star segments
    bi,                   \* script.py: segments of all_edges already inserted
    vertices,             \* script.py: exported vertex list
    edges,                \* script.py: exported edge list (edges_data of the run)
    vertices_data,        \* calc_shortest.py: vertex list, grows by bridging
    graph_edges,          \* calc_shortest.py: edges of the topologic graph
    end_vid,              \* calc_shortest.py
    end_status,           \* calc_shortest.py
    results,              \* calc_shortest.py
    solver_calls,         \* Graph.ShortestPath invocations: [si, s_vid, end_vid]
    success, fail, bridged_starts, unmatched_starts,  \* calc_shortest.py counters
    min_len, max_len, sum_len,   \* calc_shortest.py: running length statistics
    payload               \* calc_shortest.py: topologic_results.json (<<>>: not written)

vars == <<pc, fittings, fi, infrastructure_edges, electrical, end_xyz, start_points,
          connection_edges, bi, vertices, edges, vertices_data, graph_edges,
          end_vid, end_status, results, solver_calls,
          success, fail, bridged_starts, unmatched_starts,
          min_len, max_len, sum_len, payload>>

scriptVars == <<fittings, fi, infrastructure_edges, electrical, end_xyz, start_points,
                connection_edges, bi, vertices, edges>>
calcVars   == <<vertices_data, graph_edges, end_vid, end_status, results,
                solver_calls, success, fail, bridged_starts, unmatched_starts,
                min_len, max_len, sum_len, payload>>

\* ------------------------------------------------------------------ inputs
RECURSIVE PickSegs(_, _)
\* The segments of SegPool whose positions are in S, in pool order from k on.
PickSegs(S, k) ==
    IF k > Len(SegPool) THEN <<>>
    ELSE (IF k \in S THEN <<SegPool[k]>> ELSE <<>>) \o PickSegs(S, k + 1)

InfraInputs ==
    { PickSegs(S, 1) : S \in { T \in SUBSET (1 .. Len(SegPool)) :
                                 Cardinality(T) <= MaxSegs } }

\* int(str(el.Id)) of the k-th picked device.
ElementId(k) == 500 + k

DeviceInputs ==
    UNION { { [k \in 1 .. n |-> [id |-> ElementId(k), point |-> f[k]]] :
              f \in [1 .. n -> DevPool] } : n \in 1 .. MaxDevs }

Init ==
    /\ pc = "devices"
    /\ fittings = <<>>
    /\ fi = 0
    /\ infrastructure_edges \in InfraInputs
    /\ electrical \in DeviceInputs
    /\ end_xyz \in EndPool
    /\ start_points = <<>>
    /\ connection_edges = <<>>
    /\ bi = 0
    /\ vertices = <<>>
    /\ edges = <<>>
    /\ vertices_data = <<>>
    /\ graph_edges = <<>>
    /\ end_vid = None
    /\ end_status = "exact"
    /\ results = <<>>
    /\ solver_calls = <<>>
    /\ success = 0
    /\ fail = 0
    /\ bridged_starts = 0
    /\ unmatched_starts = 0
    /\ min_len = None
    /\ max_len = 0
    /\ sum_len = 0
    /\ payload = <<>>

\* ------------------------------------------------- script.py: device loop
segments_for_nearest == infrastructure_edges
direct_mode == Len(segments_for_nearest) = 0

RECURSIVE NearestScan(_, _, _)
\* The scan "if best is None or d < best[1]" over segments k .. end: the first
\* segment at the least distance wins.
NearestScan(xyz, k, best) ==
    IF k > Len(segments_for_nearest) THEN best
    ELSE Once({ NearestScan(xyz, k + 1,
                            IF best.d = None \/ c.d < best.d THEN c ELSE best) :
                  c \in { closest_point_on_line(xyz, segments_for_nearest[k]) } })

nearest_on_network(xyz) == NearestScan(xyz, 1, [cpt |-> xyz, d |-> None])

\* A single jumper straight from the device to its attachment point.
device_connection_Diagonal(xyz) ==
    IF ~direct_mode
    THEN (IF xyz # nearest_on_network(xyz).cpt
          THEN << <<xyz, nearest_on_network(xyz).cpt>> >> ELSE <<>>)
    ELSE IF xyz # end_xyz THEN << <<xyz, end_xyz>> >> ELSE <<>>

\* A star connection made for a device at the destination too.
device_connection_StarAlways(xyz) ==
    IF ~direct_mode
    THEN LET nearest == nearest_on_network(xyz).cpt
             drop    == <<xyz[1], xyz[2], nearest[3]>>
         IN  (IF ~isclose(xyz[3], drop[3]) THEN << <<xyz, drop>> >> ELSE <<>>)
             \o
             (IF \/ ~isclose(drop[1], nearest[1])
                 \/ ~isclose(drop[2], nearest[2])
                 \/ ~isclose(drop[3], nearest[3])
              THEN << <<drop, nearest>> >> ELSE <<>>)
    ELSE << <<xyz, end_xyz>> >>

\* The segments one device contributes to connection_edges.
device_connection(xyz) ==
    IF ~direct_mode
    THEN Once({
           LET drop == <<xyz[1], xyz[2], nearest[3]>>
           IN  (IF ~isclose(xyz[3], drop[3]) THEN << <<xyz, drop>> >> ELSE <<>>)
               \o
               (IF \/ ~isclose(drop[1], nearest[1])
                   \/ ~isclose(drop[2], nearest[2])
                   \/ ~isclose(drop[3], nearest[3])
                THEN << <<drop, nearest>> >> ELSE <<>>) :
           nearest \in { nearest_on_network(xyz).cpt } })
    ELSE IF xyz # end_xyz THEN << <<xyz, end_xyz>> >> ELSE <<>>

ConnectDevice ==
    /\ pc = "devices"
    /\ LET k   == Len(start_points) + 1
           el  == electrical[k]
       IN  /\ start_points' =
                 Append(start_points, [element_id |-> el.id, point |-> el.point])
           /\ connection_edges' = connection_edges \o device_connection(el.point)
           /\ pc' = IF k = Len(electrical) THEN "build" ELSE "devices"
    /\ UNCHANGED <<fittings, fi, infrastructure_edges, electrical, end_xyz, bi,
                   vertices, edges>>
    /\ UNCHANGED calcVars

\* ------------------------------------------------- script.py: graph build
all_edges == infrastructure_edges \o connection_edges

RECURSIVE MergeScan(_, _, _)
\* The index of the first vertex nearer than MERGE_TOL to pt on every axis.
MergeScan(verts, pt, k) ==
    IF k > Len(verts) THEN None
    ELSE IF /\ Abs(verts[k][1] - pt[1]) < MERGE_TOL
            /\ Abs(verts[k][2] - pt[2]) < MERGE_TOL
            /\ Abs(verts[k][3] - pt[3]) < MERGE_TOL
         THEN k
         ELSE MergeScan(verts, pt, k + 1)

\* A merge that also takes a vertex at exactly the tolerance.
add_vertex_Inclusive(verts, pt) ==
    LET near == { k \in DOMAIN verts :
                    /\ Abs(verts[k][1] - pt[1]) <= MERGE_TOL
                    /\ Abs(verts[k][2] - pt[2]) <= MERGE_TOL
                    /\ Abs(verts[k][3] - pt[3]) <= MERGE_TOL }
    IN  IF near # {}
        THEN [idx |-> CHOOSE k \in near : \A j \in near : k <= j, verts |-> verts]
        ELSE [idx |-> Len(verts) + 1, verts |-> Append(verts, pt)]

\* A merge that recognises equal coordinates only.
add_vertex_ExactOnly(verts, pt) ==
    IF \E k \in DOMAIN verts : verts[k] = pt
    THEN [idx |-> CHOOSE k \in DOMAIN verts : verts[k] = pt, verts |-> verts]
    ELSE [idx |-> Len(verts) + 1, verts |-> Append(verts, pt)]

\* A merge that moves the vertex it finds to the new coordinate.
add_vertex_Recentres(verts, pt) ==
    LET hit == MergeScan(verts, pt, 1)
    IN  IF hit # None THEN [idx |-> hit, verts |-> [verts EXCEPT ![hit] = pt]]
        ELSE [idx |-> Len(verts) + 1, verts |-> Append(verts, pt)]

\* script.py add_vertex on the vertex list verts: the index returned and the
\* list afterwards.  Indices are Python's plus one.
add_vertex(verts, pt) ==
    LET hit == MergeScan(verts, pt, 1)
    IN  IF hit # None THEN [idx |-> hit, verts |-> verts]
        ELSE [idx |-> Len(verts) + 1, verts |-> Append(verts, pt)]

\* The build loop without the test i1 != i2.
AddSegment_AlwaysEdge ==
    /\ pc = "build"
    /\ bi < Len(all_edges)
    /\ LET seg == all_edges[bi + 1]
           r1  == add_vertex(vertices, seg[1])
           r2  == add_vertex(r1.verts, seg[2])
       IN  /\ vertices' = r2.verts
           /\ edges' = Append(edges, <<r1.idx, r2.idx>>)
    /\ bi' = bi + 1
    /\ UNCHANGED <<pc, fittings, fi, infrastructure_edges, electrical, end_xyz,
                   start_points, connection_edges>>
    /\ UNCHANGED calcVars

\* One turn of "for seg in all_edges".
AddSegment ==
    /\ pc = "build"
    /\ bi < Len(all_edges)
    /\ LET seg == all_edges[bi + 1]
           r1  == add_vertex(vertices, seg[1])
           r2  == add_vertex(r1.verts, seg[2])
       IN  /\ vertices' = r2.verts
           /\ edges' = IF r1.idx # r2.idx THEN Append(edges, <<r1.idx, r2.idx>>)
                                          ELSE edges
    /\ bi' = bi + 1
    /\ UNCHANGED <<pc, fittings, fi, infrastructure_edges, electrical, end_xyz,
                   start_points, connection_edges>>
    /\ UNCHANGED calcVars

\* script.py: topologic.JSON is written and calc_shortest.py started.
ExportGraph ==
    /\ pc = "build"
    /\ bi = Len(all_edges)
    /\ pc' = "calc"
    /\ UNCHANGED scriptVars
    /\ UNCHANGED calcVars

\* ------------------------------------------- calc_shortest.py: utilities
ALLOW_BRIDGING_STARTS  == TRUE
ALLOW_BRIDGING_END     == TRUE
IGNORE_DUPLICATE_EDGES == TRUE

RECURSIVE MatchScan(_, _, _, _)
MatchScan(coord, vertices_data_, tol, k) ==
    IF k > Len(vertices_data_) THEN None
    ELSE IF /\ Abs(vertices_data_[k][1] - coord[1]) <= tol
            /\ Abs(vertices_data_[k][2] - coord[2]) <= tol
            /\ Abs(vertices_data_[k][3] - coord[3]) <= tol
         THEN k
         ELSE MatchScan(coord, vertices_data_, tol, k + 1)

\* A lookup that returns the last index within tol, not the first.
coord_match_index_Last(coord, vertices_data_, tol) ==
    LET hits == { k \in DOMAIN vertices_data_ :
                    /\ Abs(vertices_data_[k][1] - coord[1]) <= tol
                    /\ Abs(vertices_data_[k][2] - coord[2]) <= tol
                    /\ Abs(vertices_data_[k][3] - coord[3]) <= tol }
    IN  IF hits = {} THEN None ELSE CHOOSE k \in hits : \A j \in hits : k >= j

\* coord_match_index: the first index within tol on every axis, or None.
coord_match_index(coord, vertices_data_, tol) ==
    MatchScan(coord, vertices_data_, tol, 1)

RECURSIVE NearestVertexScan(_, _, _, _)
NearestVertexScan(coord, vertices_data_, k, best) ==
    IF k > Len(vertices_data_) THEN best
    ELSE LET d == FixSqrt(SqDist(vertices_data_[k], coord))
         IN  NearestVertexScan(coord, vertices_data_, k + 1,
                 IF best.d = None \/ d < best.d THEN [i |-> k, d |-> d]
                                                ELSE best)

RECURSIVE NearestVertexScan_LastTie(_, _, _, _)
\* The scan with "d <= best_d": of the vertices at least distance the last.
NearestVertexScan_LastTie(coord, vertices_data_, k, best) ==
    IF k > Len(vertices_data_) THEN best
    ELSE LET d == FixSqrt(SqDist(vertices_data_[k], coord))
         IN  NearestVertexScan_LastTie(coord, vertices_data_, k + 1,
                 IF best.d = None \/ d <= best.d THEN [i |-> k, d |-> d]
                                                 ELSE best)

nearest_vertex_index_LastTie(coord, vertices_data_) ==
    NearestVertexScan_LastTie(coord, vertices_data_, 1, [i |-> None, d |-> None])

\* nearest_vertex_index: (best_i, best_d), the first vertex at least distance.
nearest_vertex_index(coord, vertices_data_) ==
    NearestVertexScan(coord, vertices_data_, 1, [i |-> None, d |-> None])

\* The bridge test with the boundary left out.
WithinBridge_Strict(nd) == nd # None /\ nd < BRIDGING_MAX_DIST * Scale

\* The bridge test with the distance limit left out.
WithinBridge_Always(nd) == nd # None

\* nd <= BRIDGING_MAX_DIST, nd a computed length.
WithinBridge(nd) == nd # None /\ nd <= BRIDGING_MAX_DIST * Scale

\* ----------------------------------------- calc_shortest.py: edge build
\* A key that keeps the direction of the edge.
pair_key_Ordered(i2, j2) == <<i2, j2>>

\* The key under which an edge is remembered in seen_pairs.
pair_key(i2, j2) == IF i2 < j2 THEN <<i2, j2>> ELSE <<j2, i2>>

RECURSIVE BuildEdges(_, _, _, _, _)
\* The loop over edges_data from position k: the edges used, in order.
\* nverts is len(vertex_objs); seen is seen_pairs; acc is edge_objs.
BuildEdges(edges_data, nverts, k, seen, acc) ==
    IF k > Len(edges_data) THEN acc
    ELSE LET i2 == edges_data[k][1]
             j2 == edges_data[k][2]
             key == pair_key(i2, j2)
         IN  IF i2 < 1 \/ j2 < 1 \/ i2 > nverts \/ j2 > nverts \/ i2 = j2
             THEN BuildEdges(edges_data, nverts, k + 1, seen, acc)
             ELSE IF IGNORE_DUPLICATE_EDGES /\ key \in seen
             THEN BuildEdges(edges_data, nverts, k + 1, seen, acc)
             ELSE BuildEdges(edges_data, nverts, k + 1, seen \cup {key},
                             Append(acc, <<i2, j2>>))

\* data.get("end_point"): <<>> stands for a document without one.
end_point == end_xyz

\* main, up to Graph.ByVerticesEdges: the document is loaded and checked, the
\* vertices and the edges are built.
BuildGraph ==
    /\ pc = "calc"
    /\ IF Len(vertices) = 0 \/ Len(edges) = 0 \/ end_point = <<>>
       THEN /\ pc' = "aborted"
            /\ UNCHANGED <<vertices_data, graph_edges>>
       ELSE /\ pc' = "bind_end"
            /\ vertices_data' = vertices
            /\ graph_edges' = BuildEdges(edges, Len(vertices), 1, {}, <<>>)
    /\ UNCHANGED scriptVars
    /\ UNCHANGED <<end_vid, end_status, results, solver_calls, success, fail,
                   bridged_starts, unmatched_starts, min_len, max_len, sum_len,
                   payload>>

\* ------------------------------------------- calc_shortest.py: end point
BindEnd ==
    /\ pc = "bind_end"
    /\ LET hit == coord_match_index(end_point, vertices_data, MATCH_TOL)
           nv  == nearest_vertex_index(end_point, vertices_data)
       IN  IF hit # None
           THEN /\ end_vid' = hit
                /\ pc' = "solve"
                /\ UNCHANGED <<vertices_data, graph_edges, end_status>>
           ELSE IF ALLOW_BRIDGING_END /\ WithinBridge(nv.d)
           THEN /\ vertices_data' = Append(vertices_data, end_point)
                /\ graph_edges' = Append(graph_edges, <<nv.i, Len(vertices_data) + 1>>)
                /\ end_vid' = Len(vertices_data) + 1
                /\ end_status' = "bridged_end"
                /\ pc' = "solve"
           ELSE /\ pc' = "aborted"
                /\ UNCHANGED <<vertices_data, graph_edges, end_vid, end_status>>
    /\ UNCHANGED scriptVars
    /\ UNCHANGED <<results, solver_calls, success, fail, bridged_starts,
                   unmatched_starts, min_len, max_len, sum_len, payload>>

\* --------------------------------- topologicpy: Graph.ShortestPath
\* The graph holds the vertices verts (one per entry of vertices_data) and
\* the edges ges; an edge's Length is the distance between its end vertices.
Neighbors(v, ges) ==
    { IF ges[k][1] = v THEN ges[k][2] ELSE ges[k][1] :
        k \in { j \in DOMAIN ges : v \in {ges[j][1], ges[j][2]} } }

EdgeLength(u, v, verts) == dist3(verts[u], verts[v])

MinOf(S) == CHOOSE x \in S : \A y \in S : x <= y

\* One round of relaxation for vertex v, given the distances prev to the target.
RelaxOne(v, prev, verts, ges) ==
    LET cands == { prev[u] + EdgeLength(v, u, verts) :
                     u \in { w \in Neighbors(v, ges) : prev[w] # None } }
                 \cup (IF prev[v] # None THEN {prev[v]} ELSE {})
    IN  IF cands = {} THEN None ELSE MinOf(cands)

RECURSIVE RelaxAll(_, _, _, _)
RelaxAll(v, prev, verts, ges) ==
    IF v > Len(verts) THEN <<>>
    ELSE <<RelaxOne(v, prev, verts, ges)>> \o RelaxAll(v + 1, prev, verts, ges)

RECURSIVE Distances(_, _, _, _)
\* Least cumulative Length from every vertex to t after k rounds (None: none).
Distances(t, verts, ges, k) ==
    IF k = 0 THEN [v \in 1 .. Len(verts) |-> IF v = t THEN 0 ELSE None]
    ELSE Once({ RelaxAll(1, prev, verts, ges) :
                  prev \in { Distances(t, verts, ges, k - 1) } })

RECURSIVE TightPaths(_, _, _, _, _)
\* The vertex sequences from v to t along which the distance to t falls by
\* exactly the Length of each edge taken.
TightPaths(v, t, dist, verts, ges) ==
    IF v = t THEN { <<t>> }
    ELSE UNION { { <<v>> \o p : p \in TightPaths(u, t, dist, verts, ges) } :
                   u \in { w \in Neighbors(v, ges) :
                             /\ dist[w] # None
                             /\ dist[w] < dist[v]
                             /\ dist[w] + EdgeLength(v, w, verts) = dist[v] } }

RECURSIVE SimplePaths(_, _, _, _)
\* Every vertex sequence from v to t over the edges ges that repeats no vertex
\* and avoids the vertices of seen.
SimplePaths(v, t, seen, ges) ==
    IF v = t THEN { <<t>> }
    ELSE UNION { { <<v>> \o p : p \in SimplePaths(u, t, seen \cup {u}, ges) } :
                   u \in Neighbors(v, ges) \ seen }

\* A solver that returns some route, whatever its Length.
ShortestPath_AnyRoute(verts, ges, s, t) ==
    IF s = t THEN {} ELSE SimplePaths(s, t, {s}, ges)

\* Graph.ShortestPath(graph, start, end, edgeKey="Length"): the wires the call
\* may return, each as the vertex sequence of Wire.Vertices from start to end.
\* No wire is returned when end is out of reach, nor when start is end (a wire
\* has at least one edge).  Which of several wires of least Length is
\* returned is the library's choice.
ShortestPath(verts, ges, s, t) ==
    Once({ IF s = t \/ dist[s] = None THEN {}
           ELSE TightPaths(s, t, dist, verts, ges) :
             dist \in { Distances(t, verts, ges, Len(verts)) } })

\* --------------------------------------- calc_shortest.py: device loop
RECURSIVE PathLength_SkipsLast(_)
\* The sum with the last pair of coordinates left out.
PathLength_SkipsLast(coords) ==
    IF Len(coords) < 3 THEN 0
    ELSE dist3(coords[1], coords[2]) + PathLength_SkipsLast(Tail(coords))

RECURSIVE PathLength(_)
\* pl: the sum of dist3 over consecutive coordinates.
PathLength(coords) ==
    IF Len(coords) < 2 THEN 0
    ELSE dist3(coords[1], coords[2]) + PathLength(Tail(coords))

\* The index recorded for a path coordinate (Python's -1 when none matches).
path_vertex_index(c, vertices_data_) ==
    LET vidx == coord_match_index(c, vertices_data_, MATCH_TOL)
    IN  IF vidx # None THEN vidx
        ELSE coord_match_index(c, vertices_data_, RETRY_TOL)

\* A failed result numbered by the failures so far, not by its start point.
FailedResult_CountsFailures(si, eid, status) ==
    [start_index |-> fail, element_id |-> eid, length |-> None,
     vertex_indices |-> <<>>, vertex_path_xyz |-> <<>>, status |-> status]

\* A failed result that lists the start point as its path.
FailedResult_KeepsStart(si, eid, status) ==
    [start_index |-> si, element_id |-> eid, length |-> None,
     vertex_indices |-> <<>>, vertex_path_xyz |-> <<start_points[si + 1].point>>,
     status |-> status]

\* A failed result that reports a zero length in place of None.
FailedResult_ZeroLength(si, eid, status) ==
    [start_index |-> si, element_id |-> eid, length |-> 0,
     vertex_indices |-> <<>>, vertex_path_xyz |-> <<>>, status |-> status]

FailedResult(si, eid, status) ==
    [start_index |-> si, element_id |-> eid, length |-> None,
     vertex_indices |-> <<>>, vertex_path_xyz |-> <<>>, status |-> status]

\* A loop that gives up at the first failed device.
MoreDevices_StopOnFail == Len(results) < Len(start_points) /\ fail = 0

\* A loop that leaves the last start point out.
MoreDevices_SkipsLast == Len(results) + 1 < Len(start_points)

\* "for si, sp in enumerate(start_points)": a start point is left to take.
MoreDevices == Len(results) < Len(start_points)

\* The destination looked up anew as the vertex added last.
end_vertex_obj_Last == Len(vertices_data)

\* end_vertex_obj = vertex_objs[end_vid], taken once before the loop.
end_vertex_obj == end_vid

\* One turn of the device loop.
ProcessDevice ==
    /\ pc = "solve"
    /\ MoreDevices
    /\ LET si    == Len(results)
           sp    == start_points[si + 1]
           eid   == sp.element_id
           coord == sp.point
           match == IF coord = <<>> THEN {None}
                    ELSE {coord_match_index(coord, vertices_data, MATCH_TOL)}
           near  == IF coord = <<>> THEN {[i |-> None, d |-> None]}
                    ELSE {nearest_vertex_index(coord, vertices_data)}
       IN
       \E hit \in match, nv \in near :
       LET bridge == hit = None /\ ALLOW_BRIDGING_STARTS /\ WithinBridge(nv.d)
           vdata == IF bridge THEN Append(vertices_data, coord) ELSE vertices_data
           ges   == IF bridge
                    THEN Append(graph_edges, <<nv.i, Len(vertices_data) + 1>>)
                    ELSE graph_edges
           s_vid == IF hit # None THEN hit
                    ELSE IF bridge THEN Len(vertices_data) + 1 ELSE None
           status == IF hit # None THEN "ok"
                     ELSE IF bridge THEN "bridged_start" ELSE "unmatched_start"
       IN  IF coord = <<>>
           THEN /\ unmatched_starts' = unmatched_starts + 1
                /\ fail' = fail + 1
                /\ results' = Append(results,
                                     FailedResult(si, eid, "unmatched_start"))
                /\ UNCHANGED <<vertices_data, graph_edges, bridged_starts,
                               solver_calls, success, min_len, max_len, sum_len>>
           ELSE
           /\ vertices_data' = vdata
           /\ graph_edges' = ges
           /\ bridged_starts' = IF bridge THEN bridged_starts + 1 ELSE bridged_starts
           /\ unmatched_starts' =
                 IF hit = None /\ ~bridge THEN unmatched_starts + 1
                                          ELSE unmatched_starts
           /\ IF s_vid = None
              THEN /\ fail' = fail + 1
                   /\ results' = Append(results,
                                        FailedResult(si, eid, "unmatched_start"))
                   /\ UNCHANGED <<solver_calls, success, min_len, max_len, sum_len>>
              ELSE \E wires \in {ShortestPath(vdata, ges, s_vid, end_vertex_obj)} :
                       /\ solver_calls' =
                             Append(solver_calls,
                                    [si |-> si, s_vid |-> s_vid,
                                     end_vid |-> end_vertex_obj])
                       /\ IF wires = {}
                          THEN /\ fail' = fail + 1
                               /\ results' = Append(results,
                                                    FailedResult(si, eid, "no_path"))
                               /\ UNCHANGED <<success, min_len, max_len, sum_len>>
                          ELSE \E wire \in wires :
                                 LET coords == [k \in 1 .. Len(wire) |-> vdata[wire[k]]]
                                     pl     == PathLength(coords)
                                 IN  /\ sum_len' = sum_len + pl
                                     /\ min_len' = IF min_len = None \/ pl < min_len
                                                   THEN pl ELSE min_len
                                     /\ max_len' = IF pl > max_len THEN pl ELSE max_len
                                     /\ success' = success + 1
                                     /\ results' = Append(results,
                                          [start_index |-> si,
                                           element_id |-> eid,
                                           length |-> pl,
                                           vertex_indices |->
                                             [k \in 1 .. Len(coords) |->
                                                path_vertex_index(coords[k], vdata)],
                                           vertex_path_xyz |-> coords,
                                           status |-> status])
                                     /\ UNCHANGED fail
    /\ UNCHANGED <<pc, end_vid, end_status, payload>>
    /\ UNCHANGED scriptVars

\* ------------------------------------------ calc_shortest.py: the output
\* The mean taken over every device, failed ones too.
avg_len_OverAll == IF success > 0 THEN sum_len \div (success + fail) ELSE None

\* avg_len, on the fixed-point grid of the lengths.
avg_len == IF success > 0 THEN sum_len \div success ELSE None

\* A meta that reports the unmatched starts as the failed paths.
meta_out_FailedAsUnmatched ==
    [vertex_count_initial        |-> Len(vertices_data),
     vertex_count_after_bridging |-> Len(vertices_data),
     edge_count_input            |-> Len(edges),
     edge_count_used  |-> Len(BuildEdges(edges, Len(vertices), 1, {}, <<>>)),
     start_count                 |-> Len(start_points),
     end_status                  |-> end_status,
     paths_success               |-> success,
     paths_failed                |-> unmatched_starts,
     bridged_starts              |-> bridged_starts,
     unmatched_starts            |-> unmatched_starts,
     min_path_length             |-> min_len,
     max_path_length             |-> IF success > 0 THEN max_len ELSE None,
     avg_path_length             |-> avg_len]

\* meta_out, the entries that depend on the run.  data.get("vertices") is the
\* list vertices_data itself, bridged vertices included.
meta_out ==
    [vertex_count_initial        |-> Len(vertices_data),
     vertex_count_after_bridging |-> Len(vertices_data),
     edge_count_input            |-> Len(edges),
     edge_count_used  |-> Len(BuildEdges(edges, Len(vertices), 1, {}, <<>>)),
     start_count                 |-> Len(start_points),
     end_status                  |-> end_status,
     paths_success               |-> success,
     paths_failed                |-> fail,
     bridged_starts              |-> bridged_starts,
     unmatched_starts            |-> unmatched_starts,
     min_path_length             |-> min_len,
     max_path_length             |-> IF success > 0 THEN max_len ELSE None,
     avg_path_length             |-> avg_len]

\* After the loop: the meta is computed and topologic_results.json written.
WriteResults ==
    /\ pc = "solve"
    /\ ~MoreDevices
    /\ payload' = [meta          |-> meta_out,
                   end_point     |-> end_point,
                   results_count |-> Len(results),
                   paths_success |-> success,
                   paths_failed  |-> fail,
                   results       |-> results]
    /\ pc' = "done"
    /\ UNCHANGED scriptVars
    /\ UNCHANGED <<vertices_data, graph_edges, end_vid, end_status, results,
                   solver_calls, success, fail, bridged_starts, unmatched_starts,
                   min_len, max_len, sum_len>>

\* -------------------------------------------------------- specification
Next ==
    \/ ConnectDevice
    \/ AddSegment
    \/ ExportGraph
    \/ BuildGraph
    \/ BindEnd
    \/ ProcessDevice
    \/ WriteResults

Spec == Init /\ [][Next]_vars

\* ------------------------------- calc_shortest.py over any input document
\* calc_shortest.py reads topologic.JSON whoever wrote it.  The documents
\* below have three vertices, two of them a match tolerance apart, or none;
\* edges between the first and the last vertex, in both directions, and
\* edges that name an index past the end of the list or below it (Python
\* -1); start points a match tolerance off the first vertex and at the
\* second, without a coordinate, or far from every vertex; and an end point
\* at a vertex, at the maximum bridge distance from one, farther than that
\* from all, or none.
A1 == <<0, 1, 0>>       \* exactly MATCH_TOL from A
DocVertexLists == { <<A, A1, B>>, <<>> }
DocEdgePool    == { <<1, 3>>, <<3, 1>>, <<1, 4>>, <<0, 3>> }
DocStartPool   == { A1, <<>>, <<0, 0, 130>> }
DocEndPool     == { B, <<>>, <<100, 0, 50>>, <<100, 0, 130>> }

DocEdgeLists ==
    UNION { [1 .. n -> DocEdgePool] : n \in 0 .. MaxSegs }

DocStartLists ==
    UNION { { [k \in 1 .. n |-> [element_id |-> ElementId(k), point |-> f[k]]] :
              f \in [1 .. n -> DocStartPool] } : n \in 1 .. MaxDevs }

DocInit ==
    /\ pc = "calc"
    /\ fittings = <<>>
    /\ fi = 0
    /\ infrastructure_edges = <<>>
    /\ electrical = <<>>
    /\ connection_edges = <<>>
    /\ bi = 0
    /\ vertices \in DocVertexLists
    /\ edges \in DocEdgeLists
    /\ start_points \in DocStartLists
    /\ end_xyz \in DocEndPool
    /\ vertices_data = <<>>
    /\ graph_edges = <<>>
    /\ end_vid = None
    /\ end_status = "exact"
    /\ results = <<>>
    /\ solver_calls = <<>>
    /\ success = 0
    /\ fail = 0
    /\ bridged_starts = 0
    /\ unmatched_starts = 0
    /\ min_len = None
    /\ max_len = 0
    /\ sum_len = 0
    /\ payload = <<>>

DocNext ==
    \/ BuildGraph
    \/ BindEnd
    \/ ProcessDevice
    \/ WriteResults

DocSpec == DocInit /\ [][DocNext]_vars

\* ------------------------------- script.py: residual fittings extraction
\* script.py fitting_edges_from_connectors, on the connector points of one
\* fitting in the order of its ConnectorManager.
fitting_edges_from_connectors(points) ==
    LET n == Len(points)
    IN  IF n = 2 THEN << <<points[1], points[2]>> >>
        ELSE IF n = 3
        THEN << <<points[1], points[2]>>, <<points[2], points[3]>>,
                <<points[3], points[1]>> >>
        ELSE IF n = 4
        THEN << <<points[1], points[3]>>, <<points[2], points[4]>> >>
        ELSE [i \in 1 .. n - 1 |-> <<points[i], points[i + 1]>>]

\* One turn of the residual loop, for a tray or conduit fitting: with two
\* connectors or more its edges are added to residual_edges, which become
\* infrastructure_edges.
ExtractFitting ==
    /\ pc = "residual"
    /\ fi < Len(fittings)
    /\ LET pts == fittings[fi + 1]
       IN  infrastructure_edges' =
             IF Len(pts) >= 2
             THEN infrastructure_edges \o fitting_edges_from_connectors(pts)
             ELSE infrastructure_edges
    /\ fi' = fi + 1
    /\ UNCHANGED <<pc, fittings, electrical, end_xyz, start_points,
                   connection_edges, bi, vertices, edges>>
    /\ UNCHANGED calcVars

\* infrastructure_edges = run_edges + residual_edges: the network is
\* complete, the devices and the end point are picked next.
ConsolidateInfra ==
    /\ pc = "residual"
    /\ fi = Len(fittings)
    /\ pc' = "pick"
    /\ UNCHANGED scriptVars
    /\ UNCHANGED calcVars

\* Connector points of fittings: the arms of a cross about a centre.
ConnectorPool ==
    << <<40, 50, 0>>, <<50, 40, 0>>, <<60, 50, 0>>, <<50, 60, 0>>, <<50, 50, 10>> >>
MaxFittings == 2      \* residual fittings in one run

\* The connector lists of one fitting: one to five points of the pool, no
\* point twice, in pool order.
RECURSIVE PickPoints(_, _)
PickPoints(S, k) ==
    IF k > Len(ConnectorPool) THEN <<>>
    ELSE (IF k \in S THEN <<ConnectorPool[k]>> ELSE <<>>) \o PickPoints(S, k + 1)

FittingInputs ==
    { PickPoints(S, 1) : S \in SUBSET (1 .. Len(ConnectorPool)) \ {{}} }

FittingInit ==
    /\ pc = "residual"
    /\ fittings \in UNION { [1 .. n -> FittingInputs] : n \in 1 .. MaxFittings }
    /\ fi = 0
    /\ infrastructure_edges = <<>>
    /\ electrical = <<>>
    /\ end_xyz = <<>>
    /\ start_points = <<>>
    /\ connection_edges = <<>>
    /\ bi = 0
    /\ vertices = <<>>
    /\ edges = <<>>
    /\ vertices_data = <<>>
    /\ graph_edges = <<>>
    /\ end_vid = None
    /\ end_status = "exact"
    /\ results = <<>>
    /\ solver_calls = <<>>
    /\ success = 0
    /\ fail = 0
    /\ bridged_starts = 0
    /\ unmatched_starts = 0
    /\ min_len = None
    /\ max_len = 0
    /\ sum_len = 0
    /\ payload = <<>>

FittingNext ==
    \/ ExtractFitting
    \/ ConsolidateInfra

FittingSpec == FittingInit /\ [][FittingNext]_vars

\* --------------------------------------- script.py over further devices
\* The graph construction of script.py alone, with devices that sit off the
\* network by less than the merge tolerance: 0.2 ft beside a side and 2 ft
\* above it, 2 ft above a side, beside a side in its plane, and above a side
\* by exactly the isclose tolerance.
ScriptDevPool == { <<50, 2, 20>>, <<50, 0, 20>>, <<50, 50, 0>>, <<50, 0, 1>> }

ScriptDeviceInputs ==
    UNION { { [k \in 1 .. n |-> [id |-> ElementId(k), point |-> f[k]]] :
              f \in [1 .. n -> ScriptDevPool] } : n \in 1 .. MaxDevs }

ScriptInit ==
    /\ pc = "devices"
    /\ fittings = <<>>
    /\ fi = 0
    /\ infrastructure_edges \in InfraInputs
    /\ electrical \in ScriptDeviceInputs
    /\ end_xyz \in EndPool
    /\ start_points = <<>>
    /\ connection_edges = <<>>
    /\ bi = 0
    /\ vertices = <<>>
    /\ edges = <<>>
    /\ vertices_data = <<>>
    /\ graph_edges = <<>>
    /\ end_vid = None
    /\ end_status = "exact"
    /\ results = <<>>
    /\ solver_calls = <<>>
    /\ success = 0
    /\ fail = 0
    /\ bridged_starts = 0
    /\ unmatched_starts = 0
    /\ min_len = None
    /\ max_len = 0
    /\ sum_len = 0
    /\ payload = <<>>

ScriptNext ==
    \/ ConnectDevice
    \/ AddSegment
    \/ ExportGraph

ScriptSpec == ScriptInit /\ [][ScriptNext]_vars

\* ------------------------------------------------------------- scheduling
\* script.py and calc_shortest.py are sequential programs: whenever a next
\* statement exists, it is executed.
FairSpec == Spec /\ WF_vars(Next)
FairDocSpec == DocSpec /\ WF_vars(DocNext)

\* ================================================================ claims
RECURSIVE WalkLength(_, _)
\* The cumulative edge length of the vertex sequence p over the vertices verts.
WalkLength(p, verts) ==
    IF Len(p) < 2 THEN 0
    ELSE EdgeLength(p[Len(p) - 1], p[Len(p)], verts)
           + WalkLength(SubSeq(p, 1, Len(p) - 1), verts)

Solving == pc \in {"solve", "done"}
LastCall == solver_calls[Len(solver_calls)]
\* The last device processed was handed to the solver, and the graph is as
\* it stood for that call.
LastSolved ==
    /\ Solving
    /\ Len(results) > 0
    /\ Len(solver_calls) > 0
    /\ LastCall.si = Len(results) - 1
LastResult == results[Len(results)]
RoutesOfLastCall ==
    SimplePaths(LastCall.s_vid, LastCall.end_vid, {LastCall.s_vid}, graph_edges)

UScenario ==
    /\ infrastructure_edges = << <<A, B>>, <<B, C>>, <<C, D>> >>
    /\ Len(electrical) = 1
    /\ electrical[1].point = <<50, 0, 0>>
    /\ end_xyz = D

\* C2: in the U scenario the run reports path length 25 ft and status ok for
\* the device, and five vertices after processing.
C2_UScenario ==
    (UScenario /\ pc = "done")
      => /\ results[1].length = 250 * Scale
         /\ results[1].status = "ok"
         /\ Len(vertices_data) = 5

\* The graph build of script.py is over.
Built == pc \notin {"devices", "build"}

\* The vertex of the exported list that pt resolves to.
VIndex(pt) == MergeScan(vertices, pt, 1)
HasEdge(es, i, j) == \E k \in DOMAIN es : es[k] \in {<<i, j>>, <<j, i>>}

\* The position of the segment that wins the nearest-segment scan for xyz.
WinningSeg(xyz) ==
    CHOOSE k \in DOMAIN segments_for_nearest :
      /\ closest_point_on_line(xyz, segments_for_nearest[k]).d
           = nearest_on_network(xyz).d
      /\ \A j \in 1 .. k - 1 :
           closest_point_on_line(xyz, segments_for_nearest[j]).d
             # nearest_on_network(xyz).d

\* p is within the merge tolerance of q on every axis.
WithinMerge(p, q) ==
    /\ Abs(p[1] - q[1]) <= MERGE_TOL
    /\ Abs(p[2] - q[2]) <= MERGE_TOL
    /\ Abs(p[3] - q[3]) <= MERGE_TOL

\* Device k projects strictly inside its winning segment.
ProjectsInside(k) ==
    /\ ~direct_mode
    /\ LET xyz == electrical[k].point
           seg == segments_for_nearest[WinningSeg(xyz)]
           P   == nearest_on_network(xyz).cpt
       IN  ~WithinMerge(P, seg[1]) /\ ~WithinMerge(P, seg[2])

\* C3: once the graph is built, for every device that projects strictly
\* inside an infrastructure edge (A,B): a vertex P stands at the projection,
\* the edge (A,B) is gone, and the edges (A,P) and (P,B) are present.
C3_EdgeSplit ==
    Built =>
      \A k \in DOMAIN electrical :
        ProjectsInside(k) =>
          LET xyz == electrical[k].point
              seg == segments_for_nearest[WinningSeg(xyz)]
              iP  == VIndex(nearest_on_network(xyz).cpt)
              iA  == VIndex(seg[1])
              iB  == VIndex(seg[2])
          IN  /\ iP # None
              /\ ~HasEdge(edges, iA, iB)
              /\ HasEdge(edges, iA, iP)
              /\ HasEdge(edges, iP, iB)

\* ProcessDevice takes the next start point.
DeviceStep == pc = "solve" /\ Len(results') = Len(results) + 1
NextCoord == start_points[Len(results) + 1].point
\* No vertex of the graph matches the next start point.
NextUnmatched ==
    \A i \in DOMAIN vertices_data :
      \/ Abs(vertices_data[i][1] - NextCoord[1]) > MATCH_TOL
      \/ Abs(vertices_data[i][2] - NextCoord[2]) > MATCH_TOL
      \/ Abs(vertices_data[i][3] - NextCoord[3]) > MATCH_TOL
\* The least distance from the next start point to a vertex of the graph.
NextNearest == MinOf({ dist3(NextCoord, vertices_data[i]) : i \in DOMAIN vertices_data })

ExportedNearest(pt) == MinOf({ dist3(pt, vertices[i]) : i \in DOMAIN vertices })

C6_TrivialPath ==
    (LastSolved /\ LastCall.s_vid = LastCall.end_vid)
      => /\ LastResult.status = "ok"
         /\ LastResult.length = 0
         /\ LastResult.vertex_indices = <<LastCall.end_vid>>
         /\ LastResult.vertex_path_xyz = <<vertices_data[LastCall.end_vid]>>

\* C7: when the bound start vertex and the destination vertex lie in
\* different connected components, the result has status no_path, a null
\* length and empty paths.
C7_Disconnected ==
    (LastSolved /\ RoutesOfLastCall = {})
      => /\ LastResult.status = "no_path"
         /\ LastResult.length = None
         /\ LastResult.vertex_indices = <<>>
         /\ LastResult.vertex_path_xyz = <<>>

\* A device was solved whose start vertex has no route to the destination.
C7_Witness ==
    /\ LastSolved
    /\ RoutesOfLastCall = {}
    /\ LastResult.status = "no_path"

RECURSIVE CoordsLength(_)
\* The sum of the distances between consecutive coordinates of cs.
CoordsLength(cs) ==
    IF Len(cs) < 2 THEN 0
    ELSE CoordsLength(SubSeq(cs, 1, Len(cs) - 1))
           + FixSqrt(SqDist(cs[Len(cs) - 1], cs[Len(cs)]))

\* The solver call made for the k-th result.
CallOf(k) ==
    CHOOSE c \in { solver_calls[j] : j \in DOMAIN solver_calls } : c.si = k - 1

\* C8: for every result with a non-null length, the length is the sum of the
\* distances between consecutive coordinates of its vertex_path_xyz, the
\* path starts at the bound start vertex and ends at the destination vertex,
\* and consecutive path vertices are joined by an edge of the graph.
C8_PathConsistent ==
    Solving =>
      \A k \in DOMAIN results :
        results[k].length # None =>
          LET xyz == results[k].vertex_path_xyz
              c   == CallOf(k)
          IN  /\ Len(xyz) >= 1
              /\ results[k].length = CoordsLength(xyz)
              /\ xyz[1] = vertices_data[c.s_vid]
              /\ xyz[Len(xyz)] = vertices_data[c.end_vid]
              /\ \A i \in 1 .. Len(xyz) - 1 :
                   \E e \in DOMAIN graph_edges :
                     {vertices_data[graph_edges[e][1]],
                      vertices_data[graph_edges[e][2]]} = {xyz[i], xyz[i + 1]}

\* A path over at least two edges has been reported.
C8_Witness ==
    /\ Solving
    /\ \E k \in DOMAIN results :
         results[k].length # None /\ Len(results[k].vertex_path_xyz) >= 3

\* The coordinates a later add_vertex call may be given.
ProbePoints ==
    { SegPool[k][1] : k \in DOMAIN SegPool } \cup { SegPool[k][2] : k \in DOMAIN SegPool }
      \cup DevPool \cup EndPool

\* The coordinates that the build loop has passed to add_vertex so far.
InsertedSoFar ==
    { all_edges[j][1] : j \in 1 .. bi } \cup { all_edges[j][2] : j \in 1 .. bi }

InsideMerge(p, q) ==
    /\ Abs(p[1] - q[1]) < MERGE_TOL
    /\ Abs(p[2] - q[2]) < MERGE_TOL
    /\ Abs(p[3] - q[3]) < MERGE_TOL

GraphBuilt == vertices_data # <<>>
SamePair(e, f) == {e[1], e[2]} = {f[1], f[2]}

RECURSIVE FirstOccurrences(_, _)
\* The entries of es from position k on that no earlier entry pairs up with.
FirstOccurrences(es, k) ==
    IF k > Len(es) THEN <<>>
    ELSE (IF \A j \in 1 .. k - 1 : ~SamePair(es[j], es[k]) THEN <<es[k]>> ELSE <<>>)
           \o FirstOccurrences(es, k + 1)

\* C10: the graph that is routed over holds at most one edge for any
\* unordered vertex pair, and of the exported edges on one pair it holds the
\* first.
C10_NoDuplicateEdges ==
    GraphBuilt =>
      /\ \A i, j \in DOMAIN graph_edges :
           i # j => ~SamePair(graph_edges[i], graph_edges[j])
      /\ SubSeq(graph_edges, 1, Len(FirstOccurrences(edges, 1)))
           = FirstOccurrences(edges, 1)

\* The exported edge list repeats one edge and reverses another, and the
\* graph has been built from it.
C10_Witness ==
    /\ GraphBuilt
    /\ \E i, j \in DOMAIN edges : i < j /\ edges[i] = edges[j]
    /\ \E i, j \in DOMAIN edges : i < j /\ edges[i] = <<edges[j][2], edges[j][1]>>

\* Every edge of es joins two different indices of a vertex list of length n.
EdgesValid(es, n) ==
    \A k \in DOMAIN es :
      /\ es[k][1] # es[k][2]
      /\ es[k][1] \in 1 .. n
      /\ es[k][2] \in 1 .. n

\* The build loop takes a segment whose two ends resolve to one vertex.
SameVertexSegment ==
    /\ pc = "build"
    /\ bi' = bi + 1
    /\ MergeScan(vertices', all_edges[bi + 1][1], 1)
         = MergeScan(vertices', all_edges[bi + 1][2], 1)

\* C11: at every moment of the graph build and of the bridging of the end
\* point and of the devices, every edge joins two different vertex indices
\* that are both within the vertex list of that moment; and a segment whose
\* two ends resolve to the same vertex adds no edge.
C11_EdgesValid ==
    /\ [](/\ EdgesValid(edges, Len(vertices))
          /\ EdgesValid(graph_edges, Len(vertices_data)))
    /\ [][SameVertexSegment => edges' = edges]_vars

\* The build has met a segment of no length and a segment whose distinct ends
\* merged into one vertex, and a bridge edge has been added since.
C11_Witness ==
    /\ Solving
    /\ \E j \in DOMAIN all_edges : all_edges[j][1] = all_edges[j][2]
    /\ \E j \in DOMAIN all_edges :
         /\ all_edges[j][1] # all_edges[j][2]
         /\ VIndex(all_edges[j][1]) = VIndex(all_edges[j][2])
    /\ Len(edges) > 0
    /\ Len(vertices_data) > Len(vertices)
    /\ Len(graph_edges) > Len(edges)

\* C12: a completed run holds exactly one result per start point, in the
\* order of start_points: the k-th result carries start_index k (counted from
\* 0) and the element_id of the k-th start point.
C12_OneResultPerStart ==
    pc = "done" =>
      /\ Len(payload.results) = Len(start_points)
      /\ payload.results_count = Len(start_points)
      /\ \A k \in DOMAIN start_points :
           /\ payload.results[k].start_index = k - 1
           /\ payload.results[k].element_id = start_points[k].element_id
           /\ payload.results[k].element_id = electrical[k].id

\* A run of two devices has completed with a failed and a solved device.
C12_Witness ==
    /\ pc = "done"
    /\ Len(start_points) = 2
    /\ payload.results[1].status \in {"unmatched_start", "no_path"}
    /\ payload.results[2].status \in {"ok", "bridged_start"}

\* The k-th result records a failure of its device.
Failed(rs, k) == rs[k].length = None

\* C13: a failure of one device (no coordinate, unmatched start, no path) is
\* recorded in that device's result alone and never ends the run: no turn of
\* the loop aborts the run or touches an earlier result, and once a failure
\* is recorded the run still goes on to complete with a result for every
\* start point.
C13_FailureIsLocal ==
    /\ []((pc = "solve" /\ \E k \in DOMAIN results : Failed(results, k))
           => <>(pc = "done" /\ Len(results) = Len(start_points)))
    /\ [][ pc = "solve" =>
             /\ pc' \in {"solve", "done"}
             /\ pc' = "done" => Len(results') = Len(start_points)
             /\ results' # results =>
                  /\ Len(results') = Len(results) + 1
                  /\ SubSeq(results', 1, Len(results)) = results ]_vars

\* A run has completed in which a start point without a coordinate came
\* first and the one after it was solved.
C13_Witness ==
    /\ pc = "done"
    /\ Len(results) = 2
    /\ start_points[1].point = <<>>
    /\ Failed(results, 1)
    /\ ~Failed(results, 2)

\* The edge names a vertex index outside the document's vertex list.
OutOfRange(e) ==
    \/ e[1] < 1 \/ e[1] > Len(vertices)
    \/ e[2] < 1 \/ e[2] > Len(vertices)

\* C14: when the input document holds an edge with a vertex index out of
\* range, the run aborts before any device is processed and no result is
\* produced.
C14_OutOfRangeAborts ==
    (\E k \in DOMAIN edges : OutOfRange(edges[k]))
      => /\ pc \in {"calc", "aborted"}
         /\ results = <<>>
         /\ payload = <<>>

\* The destination of the input document can be established: the document
\* has vertices, edges and an end point, and the end point matches a vertex
\* or lies within the maximum bridge distance of one.
Established ==
    /\ Len(vertices) > 0
    /\ Len(edges) > 0
    /\ end_point # <<>>
    /\ \E i \in DOMAIN vertices :
         \/ /\ Abs(vertices[i][1] - end_point[1]) <= MATCH_TOL
            /\ Abs(vertices[i][2] - end_point[2]) <= MATCH_TOL
            /\ Abs(vertices[i][3] - end_point[3]) <= MATCH_TOL
         \/ dist3(end_point, vertices[i]) <= BRIDGING_MAX_DIST * Scale

\* Nothing of the device loop has happened.
NothingProduced ==
    /\ results = <<>>
    /\ solver_calls = <<>>
    /\ payload = <<>>
    /\ success + fail + bridged_starts + unmatched_starts = 0

\* C15: when the destination cannot be established (no end point, no
\* vertices, no edges, or an end point that matches no vertex and is farther
\* than the maximum bridge distance from all of them), the run never enters
\* the device loop: no start point is bound, no path is solved, and no result
\* document is written.
C15_NoDestinationStops ==
    /\ ~Established => (pc \in {"calc", "bind_end", "aborted"} /\ NothingProduced)
    /\ (Len(vertices) = 0 \/ Len(edges) = 0 \/ end_point = <<>>)
         => (pc \in {"calc", "aborted"} /\ vertices_data = <<>>)
    /\ pc = "aborted" => (~Established /\ NothingProduced)

\* A run was aborted over a document that has vertices, edges and an end
\* point, the end point farther than the maximum bridge distance.
C15_Witness ==
    /\ pc = "aborted"
    /\ Len(vertices) > 0
    /\ Len(edges) > 0
    /\ end_point # <<>>
    /\ ~Established

\* C16: the destination is bound once, before the first device is taken; in
\* the device loop the destination vertex index and its coordinate stay as
\* they are, a vertex added is the start point of the device taken and an
\* edge added ends in that vertex, and every solver call is made against the
\* one destination vertex.
C16_DestinationBoundOnce ==
    /\ [](\A k \in DOMAIN solver_calls : solver_calls[k].end_vid = end_vid)
    /\ [][ /\ end_vid' # end_vid =>
                /\ pc = "bind_end"
                /\ end_vid = None
                /\ results = <<>>
           /\ pc' = "solve" => end_vid' \in DOMAIN vertices_data'
           /\ pc = "solve" =>
                /\ end_vid' = end_vid
                /\ end_status' = end_status
                /\ vertices_data'[end_vid] = vertices_data[end_vid]
                /\ vertices_data' # vertices_data =>
                     /\ vertices_data' = Append(vertices_data, NextCoord)
                     /\ NextCoord # end_point
                     /\ Len(graph_edges') = Len(graph_edges) + 1
                     /\ graph_edges'[Len(graph_edges')][2] = Len(vertices_data')
                /\ vertices_data' = vertices_data => graph_edges' = graph_edges
         ]_vars

\* Two devices were solved against a bridged destination, and a start point
\* was bridged after the destination was.
C16_Witness ==
    /\ Solving
    /\ end_status = "bridged_end"
    /\ Len(solver_calls) = 2
    /\ Len(vertices_data) > end_vid
    /\ solver_calls[1].end_vid = end_vid
    /\ solver_calls[2].end_vid = end_vid

\* The number of results that carry the status st.
StatusCount(rs, st) == Cardinality({ k \in DOMAIN rs : rs[k].status = st })

\* C17: at the end of a run the meta's unmatched_starts is the number of
\* results with status unmatched_start and its bridged_starts the number of
\* results with status bridged_start.
C17_StatusCounts ==
    pc = "done" =>
      /\ payload.meta.unmatched_starts
           = StatusCount(payload.results, "unmatched_start")
      /\ payload.meta.bridged_starts
           = StatusCount(payload.results, "bridged_start")

RECURSIVE SumLengths(_)
\* The sum of the non-null lengths of the results rs.
SumLengths(rs) ==
    IF rs = <<>> THEN 0
    ELSE (IF rs[1].length # None THEN rs[1].length ELSE 0) + SumLengths(Tail(rs))

\* The non-null lengths of the results rs.
Lengths(rs) == { rs[k].length : k \in { j \in DOMAIN rs : rs[j].length # None } }
Succeeded(rs) == Cardinality({ k \in DOMAIN rs : rs[k].length # None })

\* C18: the meta's min_path_length, max_path_length and avg_path_length are
\* the least, the greatest and the mean of the non-null lengths of the
\* results; with no such result all three are null, and otherwise
\* min <= avg <= max.  (The mean is taken on the fixed-point grid.)
C18_LengthStatistics ==
    pc = "done" =>
      LET rs == payload.results
          m  == payload.meta
      IN  IF Succeeded(rs) = 0
          THEN /\ m.min_path_length = None
               /\ m.max_path_length = None
               /\ m.avg_path_length = None
          ELSE /\ m.min_path_length \in Lengths(rs)
               /\ m.max_path_length \in Lengths(rs)
               /\ \A x \in Lengths(rs) :
                    m.min_path_length <= x /\ x <= m.max_path_length
               /\ m.avg_path_length = SumLengths(rs) \div Succeeded(rs)
               /\ m.min_path_length <= m.avg_path_length
               /\ m.avg_path_length <= m.max_path_length

\* A run has completed with two paths of different length.
C18_Witness ==
    /\ pc = "done"
    /\ Succeeded(payload.results) = 2
    /\ payload.meta.min_path_length < payload.meta.avg_path_length
    /\ payload.meta.avg_path_length < payload.meta.max_path_length

\* s is an initial part of t.
IsPrefix(s, t) == Len(s) <= Len(t) /\ SubSeq(t, 1, Len(s)) = s

\* C19: no step removes, reorders or moves a vertex: the vertex list of the
\* graph build and the vertex list of the run only grow at the end; so every
\* vertex index recorded in a result denotes, at any later moment, the
\* coordinate recorded with it.
C19_VerticesAppendOnly ==
    /\ [][IsPrefix(vertices, vertices') /\ IsPrefix(vertices_data, vertices_data')]_vars
    /\ [](\A k \in DOMAIN results :
            \A i \in DOMAIN results[k].vertex_indices :
              /\ results[k].vertex_indices[i] \in DOMAIN vertices_data
              /\ vertices_data[results[k].vertex_indices[i]]
                   = results[k].vertex_path_xyz[i])

\* The build merged a coordinate into a vertex stored elsewhere, a first
\* device got a path, and a later device was bridged by a new vertex.
C19_Witness ==
    /\ Solving
    /\ \E j \in DOMAIN all_edges : vertices[VIndex(all_edges[j][1])] # all_edges[j][1]
    /\ Len(results) = 2
    /\ results[1].length # None
    /\ results[2].status = "bridged_start"
    /\ vertices_data[Len(vertices_data)] = start_points[2].point

Matching(coord) ==
    { i \in DOMAIN vertices_data :
        /\ Abs(vertices_data[i][1] - coord[1]) <= MATCH_TOL
        /\ Abs(vertices_data[i][2] - coord[2]) <= MATCH_TOL
        /\ Abs(vertices_data[i][3] - coord[3]) <= MATCH_TOL }

\* C22: when the destination or a start point is within the match tolerance
\* of a vertex on every axis, it is bound to the lowest such index, no vertex
\* and no edge is added, and it is not marked as bridged.
C22_ExactBinding ==
    [][ /\ (pc = "bind_end" /\ pc' # "bind_end" /\ Matching(end_point) # {}) =>
             /\ end_vid' = MinOf(Matching(end_point))
             /\ end_status' = "exact"
             /\ vertices_data' = vertices_data
             /\ graph_edges' = graph_edges
             /\ pc' = "solve"
        /\ (DeviceStep /\ NextCoord # <<>> /\ Matching(NextCoord) # {}) =>
             /\ vertices_data' = vertices_data
             /\ graph_edges' = graph_edges
             /\ bridged_starts' = bridged_starts
             /\ unmatched_starts' = unmatched_starts
             /\ results'[Len(results')].status \in {"ok", "no_path"}
             /\ solver_calls' =
                  Append(solver_calls, [si      |-> Len(results),
                                        s_vid   |-> MinOf(Matching(NextCoord)),
                                        end_vid |-> end_vid]) ]_vars

\* The destination was bound to a vertex it matches, and a start point that
\* two vertices match was bound to the first of them and solved.
C22_Witness ==
    /\ Solving
    /\ end_status = "exact"
    /\ vertices_data = vertices
    /\ Len(results) > 0
    /\ start_points[1].point # <<>>
    /\ Cardinality({ i \in DOMAIN vertices :
                       /\ Abs(vertices[i][1] - start_points[1].point[1]) <= MATCH_TOL
                       /\ Abs(vertices[i][2] - start_points[1].point[2]) <= MATCH_TOL
                       /\ Abs(vertices[i][3] - start_points[1].point[3]) <= MATCH_TOL })
         = 2
    /\ start_points[1].point # vertices[1]
    /\ results[1].status = "ok"
    /\ solver_calls[1].s_vid = 1

\* The least distance from coord to a vertex of the graph, and the lowest
\* index of a vertex at that distance.
NearestDist(coord) ==
    MinOf({ dist3(coord, vertices_data[i]) : i \in DOMAIN vertices_data })
LowestNearest(coord) ==
    MinOf({ i \in DOMAIN vertices_data :
              dist3(coord, vertices_data[i]) = NearestDist(coord) })

\* coord matches no vertex and its nearest vertex is within the maximum
\* bridge distance.
Bridgeable(coord) ==
    /\ coord # <<>>
    /\ Matching(coord) = {}
    /\ NearestDist(coord) <= BRIDGING_MAX_DIST * Scale

\* The step adds one vertex, at coord, to the end of the vertex list, and one
\* edge, between that vertex and the lowest-numbered nearest vertex.
BridgeAdded(coord) ==
    /\ vertices_data' = Append(vertices_data, coord)
    /\ Len(graph_edges') = Len(graph_edges) + 1
    /\ SubSeq(graph_edges', 1, Len(graph_edges)) = graph_edges
    /\ SamePair(graph_edges'[Len(graph_edges')],
                <<LowestNearest(coord), Len(vertices_data) + 1>>)

\* C23: when the destination or a start point matches no vertex and its
\* nearest vertex is within the maximum bridge distance, exactly one vertex
\* is appended at its coordinate and exactly one edge is added, from the new
\* vertex to the lowest-numbered vertex at the least distance from it among
\* the vertices of that moment, and the point is bound to the new vertex.
C23_Bridging ==
    [][ /\ (pc = "bind_end" /\ pc' # "bind_end" /\ Bridgeable(end_point)) =>
             /\ BridgeAdded(end_point)
             /\ end_vid' = Len(vertices_data) + 1
             /\ end_status' = "bridged_end"
        /\ (DeviceStep /\ Bridgeable(NextCoord)) =>
             /\ BridgeAdded(NextCoord)
             /\ Len(solver_calls') = Len(solver_calls) + 1
             /\ solver_calls'[Len(solver_calls')].s_vid = Len(vertices_data) + 1
      ]_vars

\* The destination was bridged, and so was a start point that has two
\* vertices at the same least distance: its edge goes to the lower of them.
C23_Witness ==
    /\ Solving
    /\ end_status = "bridged_end"
    /\ vertices_data[end_vid] = end_point
    /\ Len(results) = 1
    /\ Len(vertices_data) = Len(vertices) + 2
    /\ \E i, j \in DOMAIN vertices :
         /\ i < j
         /\ dist3(vertices[i], start_points[1].point)
              = dist3(vertices[j], start_points[1].point)
         /\ \A k \in DOMAIN vertices :
              dist3(vertices[k], start_points[1].point)
                >= dist3(vertices[i], start_points[1].point)
         /\ graph_edges[Len(graph_edges)] = <<i, Len(vertices_data)>>

\* ConnectDevice takes the next device.
ConnectStep == pc = "devices" /\ Len(start_points') = Len(start_points) + 1
NextDevice == electrical[Len(start_points) + 1].point
\* The segments that the step appends to connection_edges.
NewJumpers ==
    SubSeq(connection_edges', Len(connection_edges) + 1, Len(connection_edges'))
Vertical(seg) == seg[1][1] = seg[2][1] /\ seg[1][2] = seg[2][2] /\ seg[1] # seg[2]
Horizontal(seg) == seg[1][3] = seg[2][3] /\ seg[1] # seg[2]

\* C24: a device attached to a non-empty network gets at most two jumpers:
\* a vertical one from its coordinate to the point below or above it at the
\* elevation of the attachment point, then a horizontal one from there to the
\* attachment point; the vertical one is left out when the device is at the
\* elevation of the attachment point; and the exported graph has no edge
\* whose two ends have the same coordinate.
C24_Jumpers ==
    /\ [][ (ConnectStep /\ ~direct_mode) =>
             LET att  == nearest_on_network(NextDevice).cpt
                 drop == <<NextDevice[1], NextDevice[2], att[3]>>
             IN  /\ connection_edges
                      = SubSeq(connection_edges', 1, Len(connection_edges))
                 /\ Len(NewJumpers) <= 2
                 /\ \A k \in DOMAIN NewJumpers :
                      \/ Vertical(NewJumpers[k]) /\ NewJumpers[k] = <<NextDevice, drop>>
                      \/ Horizontal(NewJumpers[k]) /\ NewJumpers[k] = <<drop, att>>
                 /\ Len(NewJumpers) = 2 =>
                      Vertical(NewJumpers[1]) /\ Horizontal(NewJumpers[2])
                 /\ NextDevice[3] = att[3] =>
                      \A k \in DOMAIN NewJumpers : ~Vertical(NewJumpers[k]) ]_vars
    /\ [](\A k \in DOMAIN edges :
            /\ edges[k][1] # edges[k][2]
            /\ vertices[edges[k][1]] # vertices[edges[k][2]])

\* The graph is exported; a device got a vertical and a horizontal jumper,
\* and the horizontal one, shorter than the merge tolerance, left no edge.
C24_Witness ==
    /\ pc = "calc"
    /\ Len(connection_edges) = 2
    /\ Vertical(connection_edges[1])
    /\ Horizontal(connection_edges[2])
    /\ connection_edges[1][1] = electrical[1].point
    /\ VIndex(connection_edges[2][1]) = VIndex(connection_edges[2][2])
    /\ HasEdge(edges, VIndex(connection_edges[1][1]), VIndex(connection_edges[1][2]))

\* C25: with no infrastructure segment at all, a device whose coordinate
\* differs from the destination contributes exactly one segment, from its
\* coordinate to the destination, and a device at the destination none.
C25_DirectMode ==
    [][ (ConnectStep /\ infrastructure_edges = <<>>) =>
          connection_edges' =
            IF NextDevice # end_xyz
            THEN Append(connection_edges, <<NextDevice, end_xyz>>)
            ELSE connection_edges ]_vars

\* Without infrastructure, one device stood at the destination and another
\* elsewhere: the second alone is star-connected.
C25_Witness ==
    /\ pc = "build"
    /\ infrastructure_edges = <<>>
    /\ Len(electrical) = 2
    /\ electrical[1].point = end_xyz
    /\ electrical[2].point # end_xyz
    /\ connection_edges = << <<electrical[2].point, end_xyz>> >>

\* C26: in a completed run the reported paths_success and paths_failed add
\* up to the number of results, which is the number of start points; and
\* every device adds one to exactly one of the two counters, which nothing
\* else changes.
C26_CounterConservation ==
    /\ [](pc = "done" =>
            /\ payload.paths_success + payload.paths_failed = payload.results_count
            /\ payload.meta.paths_success + payload.meta.paths_failed
                 = payload.results_count
            /\ payload.results_count = Len(payload.results)
            /\ Len(payload.results) = Len(start_points)
            /\ payload.meta.start_count = Len(start_points))
    /\ [][ /\ DeviceStep =>
                \/ success' = success + 1 /\ fail' = fail
                \/ success' = success /\ fail' = fail + 1
           /\ ~DeviceStep => success' = success /\ fail' = fail ]_vars

\* A run is complete in which one device succeeded and one failed without
\* being unmatched.
C26_Witness ==
    /\ pc = "done"
    /\ Len(payload.results) = 2
    /\ payload.paths_success = 1
    /\ payload.paths_failed = 1
    /\ payload.meta.unmatched_starts = 0

\* The result r is well formed.
WellFormed(r) ==
    /\ r.status \in {"ok", "no_path", "unmatched_start", "bridged_start",
                     "bridged_end"}
    /\ r.length # None <=> r.status \in {"ok", "bridged_start"}
    /\ r.length = None =>
         r.vertex_indices = <<>> /\ r.vertex_path_xyz = <<>>
    /\ r.length # None =>
         /\ Len(r.vertex_indices) = Len(r.vertex_path_xyz)
         /\ Len(r.vertex_indices) > 0

\* C27: every result has one of the five statuses, a length exactly when its
\* status is ok or bridged_start, empty index and coordinate lists when the
\* length is null, and lists of one non-zero size otherwise.
C27_ResultShape ==
    /\ \A k \in DOMAIN results : WellFormed(results[k])
    /\ pc = "done" => \A k \in DOMAIN payload.results : WellFormed(payload.results[k])

\* A completed run with a bridged start that was solved and a start that
\* was bound and found no path.
C27_Witness ==
    /\ pc = "done"
    /\ \E k \in DOMAIN payload.results :
         /\ payload.results[k].status = "bridged_start"
         /\ Len(payload.results[k].vertex_path_xyz) >= 2
    /\ \E k \in DOMAIN payload.results : payload.results[k].status = "no_path"

\* C28: in the output meta, vertex_count_initial is the number of vertices of
\* the input document, and vertex_count_after_bridging exceeds it by the
\* number of bridged start points, plus one when the destination was bridged.
C28_VertexCounts ==
    pc = "done" =>
      /\ payload.meta.vertex_count_initial = Len(vertices)
      /\ payload.meta.vertex_count_after_bridging
           - payload.meta.vertex_count_initial
           = payload.meta.bridged_starts
               + (IF payload.meta.end_status = "bridged_end" THEN 1 ELSE 0)

RECURSIVE Reached(_, _, _)
\* The points reached from those of S over the segments es in k rounds.
Reached(S, es, k) ==
    IF k = 0 THEN S
    ELSE Reached(S \cup { es[j][2] : j \in { i \in DOMAIN es : es[i][1] \in S } }
                   \cup { es[j][1] : j \in { i \in DOMAIN es : es[i][2] \in S } },
                 es, k - 1)

\* ExtractFitting takes the next fitting; the segments it adds.
FittingStep == pc = "residual" /\ fi' = fi + 1
NextFitting == fittings[fi + 1]
FittingEdges ==
    SubSeq(infrastructure_edges', Len(infrastructure_edges) + 1,
           Len(infrastructure_edges'))

\* C29: the edges that a fitting with two or more distinct connector points
\* contributes join all its connector points: each is reached from the
\* first over those edges.
C29_FittingConnected ==
    [][ (FittingStep /\ Len(NextFitting) >= 2) =>
          Reached({NextFitting[1]}, FittingEdges, Len(NextFitting))
            = { NextFitting[k] : k \in DOMAIN NextFitting } ]_vars

\* The graph as the destination binding left it, before any start point.
FrozenVertexCount ==
    Len(vertices) + (IF end_status = "bridged_end" THEN 1 ELSE 0)
FrozenVertices == SubSeq(vertices_data, 1, FrozenVertexCount)
FrozenEdges ==
    SubSeq(graph_edges, 1,
           Len(BuildEdges(edges, Len(vertices), 1, {}, <<>>))
             + (IF end_status = "bridged_end" THEN 1 ELSE 0))

\* The status and the length that a start point at coord gets when it is the
\* only one processed on that graph.
Alone(coord) ==
    LET hit    == coord_match_index(coord, FrozenVertices, MATCH_TOL)
        nv     == nearest_vertex_index(coord, FrozenVertices)
        bridge == hit = None /\ WithinBridge(nv.d)
        vdata  == IF bridge THEN Append(FrozenVertices, coord) ELSE FrozenVertices
        ges    == IF bridge THEN Append(FrozenEdges, <<nv.i, FrozenVertexCount + 1>>)
                            ELSE FrozenEdges
        s_vid  == IF hit # None THEN hit ELSE FrozenVertexCount + 1
        wires  == ShortestPath(vdata, ges, s_vid, end_vid)
        wire   == CHOOSE w \in wires : TRUE
    IN  IF hit = None /\ ~bridge
        THEN [status |-> "unmatched_start", length |-> None]
        ELSE IF wires = {} THEN [status |-> "no_path", length |-> None]
        ELSE [status |-> IF bridge THEN "bridged_start" ELSE "ok",
              length |-> PathLength([k \in 1 .. Len(wire) |-> vdata[wire[k]]])]

\* C30: on the graph that the destination binding left, the status and the
\* length of a device are those it gets when processed alone; two devices at
\* one coordinate get the same status and length; and no bridge edge of a
\* device ends in a vertex that an earlier device's bridging created.
C30_OrderIndependence ==
    Solving =>
      /\ \A k \in DOMAIN results :
           /\ results[k].status = Alone(start_points[k].point).status
           /\ results[k].length = Alone(start_points[k].point).length
      /\ \A i, j \in DOMAIN results :
           start_points[i].point = start_points[j].point =>
             /\ results[i].status = results[j].status
             /\ results[i].length = results[j].length
      /\ \A e \in Len(FrozenEdges) + 1 .. Len(graph_edges) :
           graph_edges[e][1] <= FrozenVertexCount
=============================================================================
